---- MODULE Spec2Model ----
(***************************************************************************)
(* Model of backend/app.py: the encrypted credential/session store, the    *)
(* streaming chat handler and the prompt/chat/message store.               *)
(*                                                                         *)
(* Every HTTP request is served by its own thread.  A handler is one       *)
(* action, split where another thread's step can change what it does next: *)
(* update_api_key between genai.configure and the test call; stream_chat   *)
(* before the body is read and inside generate(), which runs while the     *)
(* response is sent.                                                       *)
(* Texts are strings and \o is Python's + on str.  0 stands for a missing  *)
(* (None) integer id, which Python's truth test treats like 0.  A Message  *)
(* is saved in two steps, as the ORM does it: the created_at default is    *)
(* read from the clock, then the INSERT is sent and committed.  The        *)
(* columns title, content and category, and created_at of the other        *)
(* tables, decide nothing here and are left out.                           *)
(***************************************************************************)
EXTENDS Integers, Sequences, FiniteSets, TLC

(* ------------------------------ bounds -------------------------------- *)
MaxTime == 1        \* datetime.utcnow() takes the values 0..MaxTime
MaxFrags == 3       \* fragments one provider stream emits at most
MaxPrompts == 1     \* Prompt rows existing at the same time
ManyPrompts == 2    \* the same, where the prompts are told apart

Workers == {"w1", "w2"}                 \* concurrent /chat/stream requests
ValidCredentials == {"k1", "k2"}        \* API keys the provider accepts
None == "<None>"                        \* Python's None where a str is expected

VARIABLES
    sessions,        \* table user_session: set of rows
    prompts,         \* table prompt: set of rows
    chats,           \* table chat: set of rows
    messages,        \* table message: set of rows
    genai_api_key,   \* the key genai.configure installed process-wide
    now,             \* the last value datetime.utcnow() returned
    reg,             \* the thread serving POST /settings/api-key
    issued,          \* history: <<token answered, credential posted>> pairs
    req              \* the threads serving POST /chat/stream

vars == <<sessions, prompts, chats, messages, genai_api_key, now, reg, issued,
          req>>

(* --------------------------- Cipher (Fernet) -------------------------- *)
ENCRYPTION_KEY == "K"

\* A Fernet token: the plaintext sealed under a key.  Only the holder of the
\* key can produce a token that verifies under it.
Encrypt(key, plaintext) == [sealed_by |-> key, body |-> plaintext]

\* Faulty variant: a cipher that hands out the body without verifying.
DecryptUnverified(key, token) == token.body

\* InvalidToken is raised (None here) unless the token verifies under the key.
Decrypt(key, token) ==
    IF token.sealed_by = key THEN token.body ELSE None

\* What the column encrypted_api_key can hold after an out-of-band write:
\* a token with a broken signature or one sealed under another key.
ForeignBlobs ==
    {[sealed_by |-> "tampered", body |-> "k1"], [sealed_by |-> "K2", body |-> "k2"]}

(* ------------------------------ helpers ------------------------------- *)
SetMax(S) == CHOOSE x \in S : \A y \in S : y <= x

\* SQLite gives an INTEGER PRIMARY KEY the largest rowid in the table + 1.
NextId(table) ==
    IF table = {} THEN 1 ELSE SetMax({row.id : row \in table}) + 1

\* datetime.utcnow(): the clock has stood still or moved on since last read.
Clock == {t \in {now, now + 1} : t <= MaxTime}

\* Python's truth test on an optional str.
Truthy(s) == s # None /\ s # ""

(* --------------------------- initial state ---------------------------- *)
\* The registration thread: new_key is the credential posted, validation the
\* provider's verdict on the test call ("none": no call made), status the
\* HTTP status answered (0: none yet).
NoAnswer == [pc |-> "idle", new_key |-> None, validation |-> "none", status |-> 0]

Answer(new_key, validation, status) ==
    [pc |-> "answered", new_key |-> new_key, validation |-> validation,
     status |-> status]

\* An answer is kept for the step that gives it; a registration under way
\* stays as it is while other requests are served.
RegAfterOtherStep == IF reg.pc = "configured" THEN reg ELSE NoAnswer

NewRequest ==
    [pc |-> "start", session_id |-> None, api_key |-> None, status |-> 0,
     user_input |-> "", chat_id |-> 0, chat |-> 0, stamp |-> 0,
     emitted |-> <<>>, events |-> <<>>, ai_response |-> ""]

\* A request that has ended: its thread holds nothing but the answer's status.
Finished(pc, status) == [NewRequest EXCEPT !.pc = pc, !.status = status]

\* db.create_all() on an empty database; nothing configured, nothing served.
Init ==
    /\ sessions = {}
    /\ prompts = {}
    /\ chats = {}
    /\ messages = {}
    /\ genai_api_key = None
    /\ now = 0
    /\ reg = NoAnswer
    /\ issued = {}
    /\ req = [w \in Workers |-> NewRequest]

(* ------------------- POST /settings/api-key (issue) ------------------- *)
\* What a generate_content call can answer for the key its client carries:
\* the provider rejects a key it does not know; any call can error.
ProviderVerdicts(key) ==
    IF key \in ValidCredentials THEN {"ok", "error"} ELSE {"rejected", "error"}

\* try/except of lines 179-204: the rows after the test call run only if it
\* returned.
ValidationPassed(verdict) == verdict = "ok"

\* Faulty variant: no unique constraint on session_id.
TokenNeverTaken(token) == FALSE

\* session_id is declared unique (line 54): the INSERT of a taken token raises.
TokenTaken(token) == \E s \in sessions : s.session_id = token

\* Lines 189-195; last_used defaults to utcnow() at the INSERT.
NewSession(token, plaintext, time) ==
    [session_id |-> token,
     encrypted_api_key |-> Encrypt(ENCRYPTION_KEY, plaintext),
     last_used |-> time]

\* Lines 172-181: read the body; refuse an empty key; install the key
\* process-wide for the test call.
update_api_key_configure(new_key) ==
    /\ reg.pc # "configured"
    /\ IF ~Truthy(new_key)
       THEN /\ reg' = Answer(new_key, "none", 400)
            /\ UNCHANGED genai_api_key
       ELSE /\ reg' = [NoAnswer EXCEPT !.pc = "configured", !.new_key = new_key]
            /\ genai_api_key' = new_key
    /\ UNCHANGED <<sessions, prompts, chats, messages, now, issued, req>>

\* Lines 182-204.  The first generate_content of test_model builds its client
\* from the key that is configured process-wide when it runs.  The
\* provider's verdict, the token secrets.token_urlsafe returns and the time
\* of the INSERT are drawn where the code reaches them.
update_api_key(tokens, times) ==
    /\ reg.pc = "configured"
    /\ \E verdict \in ProviderVerdicts(genai_api_key) :
         IF ~ValidationPassed(verdict)
         THEN /\ reg' = Answer(reg.new_key, verdict, 400)
              /\ UNCHANGED <<sessions, now, issued>>
         ELSE \E token \in tokens :
                IF TokenTaken(token)
                THEN /\ reg' = Answer(reg.new_key, verdict, 400)
                     /\ UNCHANGED <<sessions, now, issued>>
                ELSE \E time \in times :
                       /\ sessions' = sessions \cup
                              {NewSession(token, reg.new_key, time)}
                       /\ now' = time
                       /\ issued' = issued \cup {<<token, reg.new_key>>}
                       /\ reg' = Answer(reg.new_key, verdict, 200)
    /\ UNCHANGED <<prompts, chats, messages, genai_api_key, req>>

(* ------------------ get_api_key_from_session (resolve) ---------------- *)
\* Faulty variant: the query without its filter.
FindAnySession(session_id) == sessions

\* UserSession.query.filter_by(session_id=...).first(): the rows found.
FindSession(session_id) == {s \in sessions : s.session_id = session_id}

\* Lines 216-217: last_used is written and committed before the decryption.
TouchSession(s, time) ==
    (sessions \ {s}) \cup {[s EXCEPT !.last_used = time]}

\* Lines 206-222.  The result is <<api key or None, sessions table after>>.
get_api_key_from_session(session_id, time) ==
    IF ~Truthy(session_id) THEN <<None, sessions>>
    ELSE LET found == FindSession(session_id) IN
         IF found = {} THEN <<None, sessions>>
         ELSE LET s == CHOOSE x \in found : TRUE IN
              <<Decrypt(ENCRYPTION_KEY, s.encrypted_api_key),
                TouchSession(s, time)>>

(* ----------------------- POST /chat/stream ---------------------------- *)
ChatExists(id) == \E c \in chats : c.id = id

\* Faulty variant: the handler goes on without a key.
NeverUnauthorized(api_key) == FALSE

\* Line 230.
Unauthorized(api_key) == ~Truthy(api_key)

\* Lines 227-231: resolve the header's session; 401 unless a key came back.
Resolve(w, header, times) ==
    /\ req[w].pc = "start"
    /\ \E time \in IF FindSession(header) = {} THEN {now} ELSE times :
         LET result == get_api_key_from_session(header, time) IN
         /\ sessions' = result[2]
         /\ now' = time
         /\ req' = [req EXCEPT ![w] =
                IF Unauthorized(result[1])
                THEN [Finished("errored", 401) EXCEPT !.session_id = header]
                ELSE [@ EXCEPT !.pc = "resolved", !.session_id = header,
                               !.api_key = result[1]]]
    /\ reg' = RegAfterOtherStep
    /\ UNCHANGED <<prompts, chats, messages, genai_api_key, issued>>

\* Faulty variant: a request without a chat_id continues the newest Chat
\* there is instead of creating its own.
ContinueNewestChat(session_id, chat_id, prompt_id) ==
    IF chat_id # 0
    THEN <<IF ChatExists(chat_id) THEN chat_id ELSE 0, chats>>
    ELSE IF prompt_id # 0
    THEN IF chats # {}
         THEN <<SetMax({c.id : c \in chats}), chats>>
         ELSE <<1, {[id |-> 1, prompt_id |-> prompt_id,
                     session_id |-> session_id]}>>
    ELSE <<0, chats>>

\* Lines 247-253: the Chat the request works on (0: none) and the table after.
\* SQLite does not enforce the foreign keys, so any prompt_id is stored.
GetOrCreateChat(session_id, chat_id, prompt_id) ==
    IF chat_id # 0
    THEN <<IF ChatExists(chat_id) THEN chat_id ELSE 0, chats>>
    ELSE IF prompt_id # 0
    THEN LET id == NextId(chats) IN
         <<id, chats \cup {[id |-> id, prompt_id |-> prompt_id,
                            session_id |-> session_id]}>>
    ELSE <<0, chats>>

\* Message(chat_id=..., role=..., content=...) inserted and committed;
\* created_at is the default the flush computed before the INSERT.
InsertMessage(chat_id, role, content, created_at) ==
    messages \cup {[id |-> NextId(messages), chat_id |-> chat_id,
                    role |-> role, content |-> content,
                    created_at |-> created_at]}

\* Faulty variant: the user message is not saved before the Response.
SaveUserMessageLater(chat, user_input, created_at) == messages

\* Lines 255-259: the user message is saved if there is a Chat.
SaveUserMessage(chat, user_input, created_at) ==
    IF chat # 0
    THEN InsertMessage(chat, "user", user_input, created_at)
    ELSE messages

\* Lines 233-258 and the first half of line 259: read the body, configure
\* genai, find or create the Chat, build the user message and read the clock
\* for its created_at.  Without a Chat nothing is saved and the streaming
\* Response is returned at once (line 276).  The prompt text of the body only
\* feeds the provider call, whose answer is unconstrained.
Dispatch(w, user_input, prompt_id, chat_id, times) ==
    /\ req[w].pc = "resolved"
    /\ LET found == GetOrCreateChat(req[w].session_id, chat_id, prompt_id) IN
         /\ genai_api_key' = req[w].api_key
         /\ chats' = found[2]
         /\ \E time \in IF found[1] # 0 THEN times ELSE {now} :
              /\ now' = time
              /\ req' = [req EXCEPT ![w] =
                     [@ EXCEPT !.pc = IF found[1] # 0 THEN "saving"
                                                     ELSE "responding",
                               !.status = 200,
                               !.user_input = user_input, !.chat_id = chat_id,
                               !.chat = found[1], !.stamp = time]]
    /\ reg' = RegAfterOtherStep
    /\ UNCHANGED <<sessions, prompts, messages, issued>>

\* Second half of line 259, line 276: the INSERT of the user message is
\* committed and the streaming Response returned.
CommitUserMessage(w) ==
    /\ req[w].pc = "saving"
    /\ messages' = SaveUserMessage(req[w].chat, req[w].user_input,
                                   req[w].stamp)
    /\ req' = [req EXCEPT ![w] = [@ EXCEPT !.pc = "responding", !.stamp = 0]]
    /\ reg' = RegAfterOtherStep
    /\ UNCHANGED <<sessions, prompts, chats, genai_api_key, now, issued>>

\* Line 262: the first generate_content of chat_model builds its client from
\* the process-wide configuration; the provider accepts or refuses the call.
OpenStream(w) ==
    /\ req[w].pc = "responding"
    /\ \E verdict \in ProviderVerdicts(genai_api_key) :
         req' = [req EXCEPT ![w] =
            IF verdict = "ok"
            THEN [NewRequest EXCEPT !.pc = "streaming", !.status = 200,
                                    !.chat = req[w].chat]
            ELSE Finished("errored", 200)]
    /\ reg' = RegAfterOtherStep
    /\ UNCHANGED <<sessions, prompts, chats, messages, genai_api_key, now,
                   issued>>

\* Line 268: one server-sent event.
SSE(text) == "data: " \o text \o "\n\n"

\* Faulty variant: the newest event is put in front of the earlier ones.
RelayNewestFirst(r, text) ==
    IF text # ""
    THEN [r EXCEPT !.ai_response = @ \o text, !.events = <<SSE(text)>> \o @]
    ELSE r

\* Lines 266-268: the loop body for one chunk.
Relay(r, text) ==
    IF text # ""
    THEN [r EXCEPT !.ai_response = @ \o text, !.events = Append(@, SSE(text))]
    ELSE r

\* Line 265: the provider emits one more fragment.
Chunk(w, text) ==
    /\ req[w].pc = "streaming"
    /\ Len(req[w].emitted) < MaxFrags
    /\ req' = [req EXCEPT ![w] =
            Relay([@ EXCEPT !.emitted = Append(@, text)], text)]
    /\ reg' = RegAfterOtherStep
    /\ UNCHANGED <<sessions, prompts, chats, messages, genai_api_key, now,
                   issued>>

\* Faulty variant: the reply is saved even when it is empty.
PersistWithoutReply(r) == r.chat # 0

\* Line 271.
ShouldPersist(r) == r.chat # 0 /\ r.ai_response # ""

\* Faulty variant: the text collected so far is saved when the provider
\* fails.
StreamFailSavesPartial(w) ==
    /\ req[w].pc = "streaming"
    /\ messages' = IF ShouldPersist(req[w])
                   THEN InsertMessage(req[w].chat, "assistant",
                                      req[w].ai_response, now)
                   ELSE messages
    /\ req' = [req EXCEPT ![w] = Finished("errored", 200)]
    /\ reg' = RegAfterOtherStep
    /\ UNCHANGED <<sessions, prompts, chats, genai_api_key, now, issued>>

\* Line 265: the provider fails instead of emitting; generate() raises.
StreamFail(w) ==
    /\ req[w].pc = "streaming"
    /\ req' = [req EXCEPT ![w] = Finished("errored", 200)]
    /\ reg' = RegAfterOtherStep
    /\ UNCHANGED <<sessions, prompts, chats, messages, genai_api_key, now,
                   issued>>

\* Lines 265, 270-273 and the first half of line 274: the provider
\* completes.  With a Chat and a reply, line 272 reads chat.id: the commit of
\* line 259 expired the object, so the row is reloaded and the read raises if
\* the row is gone; else the assistant message is built and the clock read
\* for its created_at.
StreamEnd(w, times) ==
    /\ req[w].pc = "streaming"
    /\ IF ~ShouldPersist(req[w])
       THEN /\ req' = [req EXCEPT ![w] = Finished("done", 200)]
            /\ UNCHANGED now
       ELSE IF ~ChatExists(req[w].chat)
       THEN /\ req' = [req EXCEPT ![w] = Finished("errored", 200)]
            /\ UNCHANGED now
       ELSE \E time \in times :
              /\ now' = time
              /\ req' = [req EXCEPT ![w] =
                     [Finished("persisting", 200) EXCEPT
                         !.chat = req[w].chat,
                         !.ai_response = req[w].ai_response,
                         !.stamp = time]]
    /\ reg' = RegAfterOtherStep
    /\ UNCHANGED <<sessions, prompts, chats, messages, genai_api_key, issued>>

\* Faulty variant: the commit of the reply waits for ever.
CommitReplyBlocked(w) ==
    /\ req[w].pc = "persisting"
    /\ UNCHANGED vars

\* Second half of line 274: the INSERT of the assistant message is
\* committed.  SQLite accepts it without the parent row.
CommitReply(w) ==
    /\ req[w].pc = "persisting"
    /\ messages' = InsertMessage(req[w].chat, "assistant",
                                 req[w].ai_response, req[w].stamp)
    /\ req' = [req EXCEPT ![w] = Finished("done", 200)]
    /\ reg' = RegAfterOtherStep
    /\ UNCHANGED <<sessions, prompts, chats, genai_api_key, now, issued>>

(* ---------------------------- Chat.to_dict ----------------------------- *)
RECURSIVE ById(_)
\* The rows in the order SQLite scans the table: by rowid.
ById(rows) ==
    IF rows = {} THEN <<>>
    ELSE LET first == CHOOSE x \in rows : \A y \in rows : x.id <= y.id IN
         <<first>> \o ById(rows \ {first})

\* Lines 71 and 78: self.messages, loaded without an ORDER BY.
ReadBack(chat) == ById({m \in messages : m.chat_id = chat})

(* ----------------------------- /prompts ------------------------------- *)
\* Lines 133-145.
create_prompt(limit) ==
    /\ Cardinality(prompts) < limit
    /\ prompts' = prompts \cup {[id |-> NextId(prompts)]}
    /\ reg' = RegAfterOtherStep
    /\ UNCHANGED <<sessions, chats, messages, genai_api_key, now, issued,
                   req>>

\* Faulty variant: the cascade takes the chats of every prompt.
CascadeEverything(prompt_id) == <<chats, messages>>

\* cascade='all, delete-orphan' on Prompt.chats and on Chat.messages: the
\* chats of the prompt and the messages of those chats, <<chats, messages>>.
Cascade(prompt_id) ==
    LET gone == {c \in chats : c.prompt_id = prompt_id} IN
    <<gone, {m \in messages : \E c \in gone : c.id = m.chat_id}>>

\* Lines 159-164.
delete_prompt(prompt_id) ==
    /\ \E p \in prompts :
         /\ p.id = prompt_id
         /\ prompts' = prompts \ {p}
         /\ chats' = chats \ Cascade(p.id)[1]
         /\ messages' = messages \ Cascade(p.id)[2]
    /\ reg' = RegAfterOtherStep
    /\ UNCHANGED <<sessions, genai_api_key, now, issued, req>>

(* ------------------------- out-of-band write -------------------------- *)
\* Somebody with access to prompts.db overwrites a stored ciphertext.
CorruptCiphertext(blob) ==
    /\ \E s \in sessions :
         /\ s.encrypted_api_key.sealed_by = ENCRYPTION_KEY
         /\ sessions' = (sessions \ {s}) \cup {[s EXCEPT !.encrypted_api_key = blob]}
    /\ reg' = RegAfterOtherStep
    /\ UNCHANGED <<prompts, chats, messages, genai_api_key, now, issued,
                   req>>

(* --------------------------- specifications --------------------------- *)
\* The values the requests carry and the provider answers, per specification.
\* Every specification runs every operation; it varies the inputs of the
\* part it is about.  times are the clock values the session store reads,
\* stamps those read for a Message's created_at.
SessionInputs ==
    [workers     |-> {"w1"},
     credentials |-> ValidCredentials \cup {"bad", ""},
     tokens      |-> {"t1", "t2"},
     headers     |-> {"t1", "t2", None},
     times       |-> Clock,
     stamps      |-> {now},
     user_inputs |-> {"hi"},
     prompt_ids  |-> {1},
     chat_ids    |-> {0},
     fragments   |-> {"a"},
     max_prompts |-> MaxPrompts]

OutOfBandInputs ==
    [workers     |-> Workers,
     credentials |-> {"k1"},
     tokens      |-> {"t1"},
     headers     |-> {"t1", None, "zz"},
     times       |-> Clock,
     stamps      |-> {now},
     user_inputs |-> {"hi"},
     prompt_ids  |-> {0, 1},
     chat_ids    |-> {0},
     fragments   |-> {"a"},
     max_prompts |-> MaxPrompts]

ChatInputs ==
    [workers |-> {"w1"},
     credentials |-> {"k1"},
     tokens      |-> {"t1"},
     headers     |-> {"t1"},
     times       |-> {now},
     stamps      |-> {now},
     user_inputs |-> {"", "hi"},
     prompt_ids  |-> {0, 1},
     chat_ids    |-> {0, 1},
     fragments   |-> {"", "a", "b"},
     max_prompts |-> MaxPrompts]

\* Two prompts, a chat request on either of them.
CascadeInputs ==
    [workers     |-> Workers,
     credentials |-> {"k1"},
     tokens      |-> {"t1"},
     headers     |-> {"t1"},
     times       |-> {now},
     stamps      |-> {now},
     user_inputs |-> {"hi"},
     prompt_ids  |-> 1..ManyPrompts,
     chat_ids    |-> {0},
     fragments   |-> {"a"},
     max_prompts |-> ManyPrompts]

\* Two chat requests on one Chat while the clock moves.
OrderInputs ==
    [workers     |-> Workers,
     credentials |-> {"k1"},
     tokens      |-> {"t1"},
     headers     |-> {"t1"},
     times       |-> {now},
     stamps      |-> Clock,
     user_inputs |-> {"hi"},
     prompt_ids  |-> {1},
     chat_ids    |-> {0, 1},
     fragments   |-> {"a"},
     max_prompts |-> MaxPrompts]

\* Two sessions; a request of either may name the Chat of the other.
TwoSessionInputs ==
    [workers     |-> Workers,
     credentials |-> {"k1"},
     tokens      |-> {"t1", "t2"},
     headers     |-> {"t1", "t2"},
     times       |-> {now},
     stamps      |-> {now},
     user_inputs |-> {"hi"},
     prompt_ids  |-> {1},
     chat_ids    |-> {0, 1},
     fragments   |-> {"a"},
     max_prompts |-> MaxPrompts]

\* A step of the thread serving chat request w.
RequestStep(w, I) ==
    \/ \E header \in I.headers : Resolve(w, header, I.times)
    \/ \E user_input \in I.user_inputs, prompt_id \in I.prompt_ids,
          chat_id \in I.chat_ids :
          Dispatch(w, user_input, prompt_id, chat_id, I.stamps)
    \/ CommitUserMessage(w)
    \/ OpenStream(w)
    \/ \E text \in I.fragments : Chunk(w, text)
    \/ StreamFail(w)
    \/ StreamEnd(w, I.stamps)
    \/ CommitReply(w)

NextWith(I) ==
    \/ \E new_key \in I.credentials : update_api_key_configure(new_key)
    \/ update_api_key(I.tokens, I.times)
    \/ \E w \in I.workers : RequestStep(w, I)
    \/ create_prompt(I.max_prompts)
    \/ \E prompt_id \in I.prompt_ids : delete_prompt(prompt_id)

\* The session store under every credential, token, header and clock value.
Spec == Init /\ [][NextWith(SessionInputs)]_vars

\* One session, and out-of-band writes to its stored ciphertext.
SpecOutOfBand ==
    Init /\ [][NextWith(OutOfBandInputs)
               \/ \E blob \in ForeignBlobs : CorruptCiphertext(blob)]_vars

\* The chat stream under every message, chat id, prompt id and fragment.
SpecChat == Init /\ [][NextWith(ChatInputs)]_vars

\* Concurrent appends to one Chat under a moving clock.
SpecOrder == Init /\ [][NextWith(OrderInputs)]_vars

\* What each of two concurrent requests sends and what the provider answers
\* it with, so that the rows each one writes can be told apart.
Script ==
    [w \in Workers |->
       IF w = "w1" THEN [user_input |-> "first", fragment |-> "a"]
                   ELSE [user_input |-> "second", fragment |-> "b"]]

\* One session and one prompt; each request opens its own Chat; no prompt is
\* deleted.
TwoChatsInputs(w) ==
    [workers     |-> Workers,
     credentials |-> {"k1"},
     tokens      |-> {"t1"},
     headers     |-> {"t1"},
     times       |-> Clock,
     stamps      |-> {now},
     user_inputs |-> {Script[w].user_input},
     prompt_ids  |-> {1},
     chat_ids    |-> {0},
     fragments   |-> {Script[w].fragment},
     max_prompts |-> MaxPrompts]

NextTwoChats ==
    \/ update_api_key_configure("k1")
    \/ update_api_key({"t1"}, Clock)
    \/ create_prompt(MaxPrompts)
    \/ \E w \in Workers : RequestStep(w, TwoChatsInputs(w))

\* Two chat requests against two different Chats under the same session.
\* The server runs every request thread, and the provider ends every stream
\* it has opened: a request that can take a step takes one.
SpecTwoChats ==
    /\ Init
    /\ [][NextTwoChats]_vars
    /\ \A w \in Workers : WF_vars(RequestStep(w, TwoChatsInputs(w)))

\* Chat requests of two sessions.
SpecTwoSessions == Init /\ [][NextWith(TwoSessionInputs)]_vars

\* Two chat requests on one Chat, prompt deletions, and progress.
SpecLive ==
    /\ Init
    /\ [][NextWith(OrderInputs)]_vars
    /\ \A w \in Workers : WF_vars(RequestStep(w, OrderInputs))

\* Chats under different prompts, and the deletion of a prompt.
SpecCascade == Init /\ [][NextWith(CascadeInputs)]_vars

(* ============================ properties ============================== *)

(* ---- C1: a token issued for a credential resolves to that credential -- *)
\* C1.  For every token the registration has answered, resolving the token
\* returns exactly the credential that was posted with it, whatever other
\* registrations and requests were served in between; and every key a chat
\* request has resolved is the credential issued with the token it sent.
C1_IssueResolveRoundTrip ==
    /\ \A p \in issued : get_api_key_from_session(p[1], now)[1] = p[2]
    /\ \A w \in Workers :
         req[w].pc \in {"resolved", "responding"} =>
            <<req[w].session_id, req[w].api_key>> \in issued

\* Two tokens issued for two different credentials, and a request that has
\* resolved one of them.
C1_Witness ==
    /\ \E p, q \in issued : p[1] # q[1] /\ p[2] # q[2]
    /\ \E w \in Workers :
         /\ req[w].pc = "resolved"
         /\ <<req[w].session_id, req[w].api_key>> \in issued

(* ---- C2: a credential that does not validate is not registered ------- *)
\* C2.  A registration whose credential is empty, or is one the provider
\* rejects, or whose test call errors, is answered with an error and leaves
\* the session table as it was: no record is created and no token issued.
C2_InvalidCredentialNotRegistered ==
    [][(reg'.pc = "answered"
          /\ (\/ ~Truthy(reg'.new_key)
              \/ reg'.new_key \notin ValidCredentials
              \/ reg'.validation = "error")) =>
          /\ reg'.status = 400
          /\ sessions' = sessions
          /\ issued' = issued]_vars

(* ---- C3: resolve answers the plaintext or fails ------------------------ *)
\* The stored session the header's token names whose ciphertext was produced
\* by this process's key, if any.
GenuineSessions(session_id) ==
    {s \in sessions : /\ s.session_id = session_id
                      /\ s.encrypted_api_key.sealed_by = ENCRYPTION_KEY}

\* C3.  A request's resolve step yields a key only if the token it sent
\* matches a stored session whose ciphertext was produced by this process's
\* encryption key, and then the key is the credential that ciphertext was
\* produced from; in every other case the step yields no key and the
\* request is answered 401.
C3_ResolveSoundOrUnauthorized ==
    [][\A w \in Workers :
         (req[w].pc = "start" /\ req'[w].pc # "start") =>
            IF GenuineSessions(req'[w].session_id) # {}
            THEN /\ req'[w].pc = "resolved"
                 /\ \E s \in GenuineSessions(req'[w].session_id) :
                      s.encrypted_api_key =
                          Encrypt(ENCRYPTION_KEY, req'[w].api_key)
                 /\ <<req'[w].session_id, req'[w].api_key>> \in issued
            ELSE /\ req'[w].pc = "errored"
                 /\ req'[w].status = 401
                 /\ req'[w].api_key = None]_vars

\* A request answered 401 for the token of a session whose ciphertext was
\* overwritten, next to a request that resolved the same token before.
C3_Witness ==
    \E w, v \in Workers :
       /\ req[w].status = 401
       /\ \E s \in sessions :
            /\ s.session_id = req[w].session_id
            /\ s.encrypted_api_key \in ForeignBlobs
       /\ req[v].pc = "resolved"
       /\ req[v].session_id = req[w].session_id

(* ---- C4: a failed resolve leaves the record as it was ------------------ *)
\* C4.  A resolve step that fails (the request is answered 401) leaves the
\* session table unchanged, last_used included.
C4_FailedResolveLeavesRecord ==
    [][\A w \in Workers :
         (req[w].pc = "start" /\ req'[w].status = 401) =>
            sessions' = sessions]_vars

(* ---- C5: tokens are unique, sessions are never rewritten or removed ---- *)
SameIdentity(s, t) ==
    s.session_id = t.session_id /\ s.encrypted_api_key = t.encrypted_api_key

\* C5.  No two session records carry the same token, and every step keeps
\* every record with its token and its ciphertext: only last_used changes.
C5_TokensUniqueRecordsKept ==
    [][/\ \A s, t \in sessions' : s.session_id = t.session_id => s = t
       /\ \A s \in sessions : \E t \in sessions' : SameIdentity(s, t)]_vars

\* Two sessions with different last_used, and a chat request that has run
\* to its end.
C5_Witness ==
    /\ Cardinality(sessions) = 2
    /\ \E s, t \in sessions : s.last_used # t.last_used
    /\ \E w \in Workers : req[w].pc = "done"

(* ---- C6: an empty message is rejected ---------------------------------- *)
\* C6.  A chat request whose message is empty is rejected when its body is
\* read: no Chat or Message is stored and the request never gets to the
\* provider call.
C6_EmptyMessageRejected ==
    [][\A w \in Workers :
         (req[w].pc = "resolved" /\ req'[w].pc # "resolved"
            /\ req'[w].user_input = "") =>
            /\ req'[w].pc = "errored"
            /\ chats' = chats
            /\ messages' = messages]_vars

(* ---- C7: an unresolvable token ends the request with an error ---------- *)
\* C7.  A chat request whose token is missing, unknown or names a ciphertext
\* that does not decrypt is answered 401: it relays no event, stores no Chat
\* and no Message, does not touch the provider configuration, and makes no
\* further step.
C7_UnresolvableTokenEndsRequest ==
    [][\A w \in Workers :
         /\ (req[w].pc = "start" /\ req'[w].pc # "start"
               /\ GenuineSessions(req'[w].session_id) = {}) =>
               /\ req'[w].pc = "errored"
               /\ req'[w].status = 401
               /\ req'[w].events = <<>>
               /\ chats' = chats
               /\ messages' = messages
               /\ genai_api_key' = genai_api_key
         /\ req[w].status = 401 => req'[w] = req[w]]_vars

\* Both requests answered 401, one for an unknown token and one without a
\* token, while a session is stored.
C7_Witness ==
    /\ sessions # {}
    /\ \E w, v \in Workers :
         /\ req[w].status = 401 /\ req[w].session_id = "zz"
         /\ req[v].status = 401 /\ req[v].session_id = None

(* ---- C8: an unknown chat id is rejected -------------------------------- *)
\* C8.  A chat request whose chat_id names no stored Chat is rejected when
\* its body is read: it is not answered with a stream and stores nothing.
C8_UnknownChatRejected ==
    [][\A w \in Workers :
         (req[w].pc = "resolved" /\ req'[w].pc # "resolved"
            /\ req'[w].chat_id # 0 /\ ~ChatExists(req'[w].chat_id)) =>
            /\ req'[w].pc = "errored"
            /\ chats' = chats
            /\ messages' = messages]_vars

(* ---- C9: the events relayed are the provider's fragments --------------- *)
EventsOf(fragments) == [i \in 1..Len(fragments) |-> SSE(fragments[i])]

NonEmpty(fragments) == SelectSeq(fragments, LAMBDA text : text # "")

\* C9 as stated.  While a request streams, the events relayed so far are the
\* fragments the provider has emitted so far: one event per fragment, same
\* content, same order.
C9_EveryFragmentRelayed ==
    \A w \in Workers :
       req[w].pc = "streaming" => req[w].events = EventsOf(req[w].emitted)

\* C9.  While a request streams, the events relayed so far are the non-empty
\* fragments the provider has emitted so far: one event per non-empty
\* fragment, same content, same order, and nothing else.
C9_NonEmptyFragmentsRelayed ==
    \A w \in Workers :
       req[w].pc = "streaming" =>
          req[w].events = EventsOf(NonEmpty(req[w].emitted))

\* A stream that has emitted a fragment, an empty fragment and a different
\* fragment, and has relayed two events.
C9_Witness ==
    \E w \in Workers :
       /\ req[w].pc = "streaming"
       /\ req[w].emitted = <<"a", "", "b">>
       /\ Len(req[w].events) = 2

(* ---- C10: the assistant message of a completed stream ------------------ *)
\* C10.  When the provider completes the stream of a request that has
\* collected a non-empty reply, exactly one Message is added: role
\* assistant, content the collected reply, belonging to the Chat the
\* request works on, which is a stored Chat.
C10_AssistantMessagePersisted ==
    [][\A w \in Workers :
         (req[w].pc \in {"streaming", "persisting"} /\ req'[w].pc = "done"
            /\ req[w].ai_response # "") =>
            \E m \in messages' :
               /\ m \notin messages
               /\ messages' = messages \cup {m}
               /\ m.role = "assistant"
               /\ m.content = req[w].ai_response
               /\ m.chat_id = req[w].chat
               /\ ChatExists(m.chat_id)]_vars

(* ---- C11: a stream without text leaves the user message alone -------- *)
\* The messages of a Chat with a role.
MessagesOf(chat, role) ==
    {m \in messages : m.chat_id = chat /\ m.role = role}

\* C11.  A chat request that works on a Chat adds exactly one Message to it
\* when it saves the user's turn: role user, the text of the request.  From
\* then on, as long as the provider has emitted no text - in particular when
\* it completes after zero chunks - no step of the request adds or removes a
\* Message, and the request ends without saving an assistant Message.
C11_NoReplyNoAssistantMessage ==
    [][\A w \in Workers :
         /\ (req[w].pc = "saving" /\ req'[w].pc # "saving") =>
               \E m \in messages' :
                  /\ m \notin messages
                  /\ messages' = messages \cup {m}
                  /\ m.chat_id = req[w].chat
                  /\ m.role = "user"
                  /\ m.content = req[w].user_input
         /\ (req[w].pc \in {"responding", "streaming"}
               /\ req[w].ai_response = "" /\ req'[w] # req[w]) =>
               /\ messages' = messages
               /\ req'[w].pc \in {"streaming", "done", "errored"}]_vars

\* A request has ended "done" and its Chat holds the user message and no
\* assistant message.
C11_Witness ==
    \E w \in Workers, c \in chats :
       /\ req[w].pc = "done"
       /\ Cardinality(MessagesOf(c.id, "user")) = 1
       /\ MessagesOf(c.id, "assistant") = {}
       /\ Cardinality(messages) = 1

(* ---- C12: a provider failure saves nothing and removes nothing -------- *)
\* C12.  When the provider refuses the generation call or fails between
\* chunks, the step that ends the request leaves the message table as it
\* is - no assistant Message is written and the user Message saved earlier
\* stays - and the request, once ended in error, makes no further step.
C12_ProviderFailureKeepsMessages ==
    [][\A w \in Workers :
         /\ (req[w].pc \in {"responding", "streaming"}
               /\ req'[w].pc = "errored") =>
               /\ messages' = messages
               /\ chats' = chats
         /\ req[w].pc = "errored" => req'[w] = req[w]]_vars

\* A request answered 200 has ended in error; its Chat holds its user
\* message and nothing else.
C12_Witness ==
    \E w \in Workers, c \in chats :
       /\ req[w].pc = "errored"
       /\ req[w].status = 200
       /\ \E m \in messages :
            /\ messages = {m}
            /\ m.chat_id = c.id
            /\ m.role = "user"
            /\ m.content = "hi"

(* ---- C13: deleting a Prompt takes its Chats and their Messages only --- *)
\* C13.  A step that removes a Prompt removes that Prompt alone, every Chat
\* of that Prompt and every Message of those Chats, and leaves every other
\* Prompt, every Chat of another Prompt, every Message of such a Chat and
\* every Credential Session as they were.
C13_CascadeIsolation ==
    [][\A p \in prompts :
         p \notin prompts' =>
            /\ prompts' = prompts \ {p}
            /\ chats' = {c \in chats : c.prompt_id # p.id}
            /\ messages' =
                  {m \in messages :
                     \A c \in chats : c.id = m.chat_id => c.prompt_id # p.id}
            /\ sessions' = sessions]_vars

\* Prompt 1 has been deleted with its Chat; Prompt 2, its Chat and the two
\* Messages of that Chat are still there, and so is the session.
C13_Witness ==
    /\ prompts = {[id |-> 2]}
    /\ \A w \in Workers : req[w].pc = "done"
    /\ \E c \in chats :
         /\ chats = {c}
         /\ c.prompt_id = 2
         /\ MessagesOf(c.id, "user") # {}
         /\ MessagesOf(c.id, "assistant") # {}
    /\ sessions # {}

(* ---- C14: referential integrity ---------------------------------------- *)
\* C14.  In every reachable state every Chat references a stored Prompt and
\* every Message references a stored Chat.
C14_ReferentialIntegrity ==
    /\ \A c \in chats : \E p \in prompts : p.id = c.prompt_id
    /\ \A m \in messages : ChatExists(m.chat_id)

(* ---- C15: the order of the Messages read back -------------------------- *)
\* C15.  The Messages of a Chat are read back in non-decreasing created_at
\* order: of two Messages of one Chat, the one appended (committed) earlier,
\* which is read back first, does not carry the later created_at.
C15_ReadBackInCreationOrder ==
    \A c \in chats :
       LET transcript == ReadBack(c.id) IN
       \A i, j \in 1..Len(transcript) :
          i < j => transcript[i].created_at <= transcript[j].created_at

(* ---- C16: two requests, two Chats, one session ------------------------- *)
\* The replies a request can collect from its own fragments.
RECURSIVE Repeated(_, _)
Repeated(text, n) == IF n = 0 THEN "" ELSE text \o Repeated(text, n - 1)

OwnReplies(w) == {Repeated(Script[w].fragment, n) : n \in 1..MaxFrags}

Roles(transcript) == [i \in 1..Len(transcript) |-> transcript[i].role]

\* The transcript holds nothing but rows of request w: its user message,
\* then at most its assistant message.
OwnTranscript(w, transcript) ==
    /\ Roles(transcript) \in {<<>>, <<"user">>, <<"user", "assistant">>}
    /\ Len(transcript) >= 1 => transcript[1].content = Script[w].user_input
    /\ Len(transcript) >= 2 => transcript[2].content \in OwnReplies(w)

IndependentTranscripts ==
    /\ Cardinality(chats) <= Cardinality(Workers)
    /\ \A m \in messages : ChatExists(m.chat_id)
    /\ \A c \in chats : \E w \in Workers : OwnTranscript(w, ReadBack(c.id))
    /\ \A c, d \in chats :
         (c # d /\ ReadBack(c.id) # <<>> /\ ReadBack(d.id) # <<>>) =>
            ReadBack(c.id)[1].content # ReadBack(d.id)[1].content

\* The steps of two requests on two Chats, taken one at a time.
C16_StepsIndependent ==
    [][/\ IndependentTranscripts'
       /\ \A w \in Workers :
            /\ (req[w].pc = "persisting" /\ req'[w].pc = "done") =>
                  LET after ==
                        ById({m \in messages' : m.chat_id = req[w].chat}) IN
                  /\ req[w].ai_response \in OwnReplies(w)
                  /\ Len(after) = 2
                  /\ after[2].content = req[w].ai_response
                  /\ OwnTranscript(w, after)
            /\ (req[w].pc = "start" /\ req'[w].pc = "resolved") =>
                  \E s \in sessions' :
                     /\ s.session_id = req'[w].session_id
                     /\ s.last_used = now'
            /\ req'[w] # req[w] =>
                  \A v \in Workers \ {w} : req'[v] = req[v]]_vars

\* C16.  With two chat requests under one session, each on its own Chat, in
\* every interleaving of their steps: each Chat's transcript holds only rows
\* of one request - its user Message, followed by its assistant Message,
\* whose content is the text collected from that request's own fragments -
\* the step that saves a reply completes exactly that transcript, no step
\* of one request changes the other, each request's resolve sets the
\* session's last_used to the time it read, and both requests come to an
\* end.
C16_TwoChatsIndependent ==
    /\ \A w \in Workers : <>[](req[w].pc \in {"done", "errored"})
    /\ C16_StepsIndependent

\* Both requests are done; the two Chats hold the user Message and the
\* assistant Message of one request each; the session was last used at the
\* latest clock value.
C16_Witness ==
    /\ \A w \in Workers : req[w].pc = "done"
    /\ Cardinality(chats) = 2
    /\ \A c \in chats : Len(ReadBack(c.id)) = 2
    /\ \E c \in chats : ReadBack(c.id)[2].content = "aa"
    /\ \E c \in chats : ReadBack(c.id)[2].content = "b"
    /\ \A s \in sessions : s.last_used = MaxTime

(* ------------------------------- C17 -------------------------------- *)
\* C17.  In every interleaving of chat requests and registrations, the
\* credential in force when a request opens its generation call (line 262)
\* is the credential resolved from that request's own session token.
C17_OwnCredentialUsed ==
    [][\A w \in Workers :
         (req[w].pc = "responding" /\ req'[w].pc # "responding") =>
             genai_api_key = req[w].api_key]_vars

(* ------------------------------- C18 -------------------------------- *)
\* C18.  A request with a target Chat reaches the point where the provider
\* call can be opened only by the step that commits its user Message to
\* that Chat, the call is opened only from that point, and no later step of
\* the request - a fragment, the end of the stream, a provider failure, the
\* save of the reply - removes a Message.
C18_UserMessageCommittedFirst ==
    [][\A w \in Workers :
         /\ (req[w].pc # "responding" /\ req'[w].pc = "responding"
                /\ req'[w].chat # 0) =>
               /\ req[w].pc = "saving"
               /\ \E m \in messages' \ messages :
                     /\ m.chat_id = req[w].chat
                     /\ m.role = "user"
                     /\ m.content = req[w].user_input
         /\ (req[w].pc # "streaming" /\ req'[w].pc = "streaming") =>
               req[w].pc = "responding"
         /\ (req[w].pc \in {"responding", "streaming", "persisting"}
                /\ req'[w] # req[w]) =>
               messages \subseteq messages']_vars

\* The call is open, fragments have arrived, and the Chat holds the user
\* Message and no reply yet.
C18_Witness ==
    \E w \in Workers :
       /\ req[w].pc = "streaming"
       /\ req[w].chat # 0
       /\ req[w].emitted # <<>>
       /\ MessagesOf(req[w].chat, "user") # {}
       /\ MessagesOf(req[w].chat, "assistant") = {}

(* ------------------------------- C19 -------------------------------- *)
\* The order of a request's states: a stream ends in the save of the reply
\* and then done, in done at once when there is nothing to save, or in
\* errored; the save of the reply ends in done; an ended request stays ended.
C19_StateMachine ==
    [][\A w \in Workers :
         /\ req[w].pc = "streaming" =>
               req'[w].pc \in {"streaming", "persisting", "done", "errored"}
         /\ req[w].pc = "persisting" => req'[w].pc \in {"persisting", "done"}
         /\ req[w].pc \in {"done", "errored"} => req'[w] = req[w]]_vars

\* C19.  When the server runs every request thread and the provider sends
\* finitely many fragments, every chat request reaches done or errored and
\* stays there, passing from streaming to the save of its reply and to done
\* when the provider completes, or to errored when it fails; no request
\* stays for ever in a state in between.
C19_RequestsTerminate ==
    /\ \A w \in Workers : <>[](req[w].pc \in {"done", "errored"})
    /\ \A w \in Workers :
          req[w].pc = "persisting" ~> req[w].pc = "done"
    /\ C19_StateMachine

\* One request has saved its reply and is done, the other has lost its
\* stream to a provider failure and is errored.
C19_Witness ==
    /\ req["w1"].pc = "done"
    /\ req["w2"].pc = "errored"
    /\ req["w2"].status = 200
    /\ \E m \in messages : m.role = "assistant"

(* ------------------------------- C20 -------------------------------- *)
\* C20.  Every Message a chat request appends to a Chat is appended by a
\* request whose session token is the session token stored on that Chat.
C20_ChatBoundToSession ==
    [][\A w \in Workers :
         (req[w].pc = "saving" /\ req'[w].pc = "responding") =>
            \A m \in messages' \ messages, c \in chats :
               c.id = m.chat_id => c.session_id = req[w].session_id]_vars

====
